---- MODULE Spec2Model ----
(***************************************************************************)
(* The trading-session orchestrator (package integrator): the control-plane *)
(* server, the venue registry, the streaming lifecycle, the arbitrage loop  *)
(* and the Initialize / Start / Stop / Finalize operations that sequence    *)
(* them.  One caller task runs the public operations step by step; the      *)
(* serve task, the arbitrage loop tasks and a venue connector's delivery    *)
(* task run concurrently with it.                                           *)
(***************************************************************************)
EXTENDS Naturals, FiniteSets, Sequences, TLC

\* ------------------------------------------------------------------ bounds
\* Largest number of contexts a venue's cursor yields.
MaxCtx == 2
\* Largest number of Start/Stop calls the caller makes on one orchestrator.
MaxCalls == 3
\* Largest number of failing calls to the collaborators (venue connectors,
\* robot) in one run.
MaxFaults == 2
\* Largest number of contexts a venue's cursor yields in the runs in which no
\* collaborator call fails (never less than MaxCtx).
MaxCursor == 3

\* The registered venue constructors (exchange.GetRegisterdExchanges()).
Venues == {"v1", "v2"}

NoVenue == "none"
NoPair == << NoVenue, 0 >>

VARIABLES
    addrSet,        \* config.Server.AddrPort != ""
    configured,     \* venues whose configuration field is present and non-nil
    nctx,           \* nctx[e]: number of contexts venue e's cursor yields
    gracefulServer, \* i.gracefulServer: "nil", "open" or "closed"
    httpPc,         \* the serve task: "none", "listen", "send", "done"
    httpErr,        \* initHttpServer returned an error
    exchanges,      \* i.exchanges: names recorded in the live registry
    finishChan,     \* i.arbitrageLoopFinishChan: "open" or "closed"
    engine,         \* engine[e][k]: live decision-engine instances of a pair
    stream,         \* stream[e][k]: the pair's stream is open
    arbLive,        \* live cross-venue engine instances
    loops,          \* loops[<< s, late >>]: number of live arbitrage loop
                    \* tasks at s ("select" or "tick"), launched with the
                    \* finish channel open (late = FALSE) or closed (TRUE)
    arbStopped,     \* stopArbitrageTrade returned, no startArbitrage since
    updAfterStop,   \* an update was invoked while arbStopped
    pc,             \* position of the caller task
    op,             \* the public operation running or last returned
    result,         \* its result: "pending", "nil", "err_venue", ...
    errVenue,       \* the venue the returned error names
    phase,          \* "new", "ready" (Initialize returned nil), "dead"
    calls,          \* Start/Stop calls made so far
    afterStart,     \* the operation was called right after a Start that
                    \* returned nil
    todo,           \* venues left in the running range loop
    cur,            \* venue of the running cursor walk
    idx,            \* position of the cursor (1-based, the context in hand)
    rollback,       \* stopStreaming runs as the rollback of startStreaming
    panicked,       \* the process died of a run-time panic
    nCreate,        \* per venue, calls made by the running/last operation
    nOpen,
    nStop,
    nDestroy,
    nArbCreate,     \* CreateArbitrageTradeAlgorithms calls of the operation
    nLaunch,        \* loop tasks launched by the operation
    stopFailed,     \* some StopStreaming call has returned an error
    faults,         \* failed collaborator calls so far
    cbPc,           \* a connector's delivery task: "idle", or "update" when
                    \* inside streamingCallback, before the update call
    cbEvent,        \* the pair of the event it delivers or delivered last
    cbKey,          \* the pair its UpdateTradeAlgorithms call was keyed by
    cbUpdErr,       \* that call returned an error
    cbRet           \* what streamingCallback returned: "nil" or "err"

vars == << addrSet, configured, nctx, gracefulServer, httpPc, httpErr,
           exchanges, finishChan, engine, stream, arbLive, loops, arbStopped,
           updAfterStop, pc, op, result, errVenue, phase, calls, afterStart,
           todo, cur, idx, rollback, panicked, nCreate, nOpen, nStop,
           nDestroy, nArbCreate, nLaunch, stopFailed, faults, cbPc, cbEvent,
           cbKey, cbUpdErr, cbRet >>

cfgVars == << addrSet, configured, nctx >>
envVars == << cfgVars, stopFailed, faults >>
httpVars == << gracefulServer, httpPc, httpErr >>
robotVars == << engine, stream >>
arbVars == << finishChan, arbLive, loops, arbStopped, updAfterStop >>
walkVars == << todo, cur, idx, rollback >>
countVars == << nCreate, nOpen, nStop, nDestroy, nArbCreate, nLaunch >>
cbVars == << cbPc, cbEvent, cbKey, cbUpdErr, cbRet >>

Ctxs == 1..MaxCursor
Pairs == { p \in Venues \X Ctxs : p[2] <= nctx[p[1]] }
LoopStates == {"select", "tick"} \X BOOLEAN
Zero == [e \in Venues |-> 0]
Bump(f, e) == [f EXCEPT ![e] = @ + 1]
Dec(n) == IF n > 0 THEN n - 1 ELSE 0

\* A call to a collaborator returns an error / returns nil.
Fails == faults < MaxFaults /\ faults' = faults + 1
Succeeds == faults' = faults

\* NewIntegrator: empty registry, open finish channel, no server handle; the
\* configuration and the venues' cursors (of at most n contexts) are any.
NewIntegrator(n) ==
    /\ addrSet \in BOOLEAN
    /\ configured \in SUBSET Venues
    /\ nctx \in [Venues -> 0..n]
    /\ \A e \in Venues : e \notin configured => nctx[e] = 0
    /\ gracefulServer = "nil"
    /\ httpPc = "none"
    /\ httpErr = FALSE
    /\ exchanges = {}
    /\ finishChan = "open"
    /\ engine = [e \in Venues |-> [k \in Ctxs |-> 0]]
    /\ stream = [e \in Venues |-> [k \in Ctxs |-> FALSE]]
    /\ arbLive = 0
    /\ loops = [s \in LoopStates |-> 0]
    /\ arbStopped = FALSE
    /\ updAfterStop = FALSE
    /\ pc = "idle"
    /\ op = "none"
    /\ result = "nil"
    /\ errVenue = NoVenue
    /\ phase = "new"
    /\ calls = 0
    /\ afterStart = FALSE
    /\ todo = {}
    /\ cur = NoVenue
    /\ idx = 0
    /\ rollback = FALSE
    /\ panicked = FALSE
    /\ nCreate = Zero
    /\ nOpen = Zero
    /\ nStop = Zero
    /\ nDestroy = Zero
    /\ nArbCreate = 0
    /\ nLaunch = 0
    /\ stopFailed = FALSE
    /\ cbPc = "idle"
    /\ cbEvent = NoPair
    /\ cbKey = NoPair
    /\ cbUpdErr = FALSE
    /\ cbRet = "none"

Init == NewIntegrator(MaxCtx) /\ faults = 0

\* ------------------------------------------------- control-plane server
\* A public operation returns to the caller.
Return(r, v) ==
    /\ pc' = "idle"
    /\ result' = r
    /\ errVenue' = v

\* The locals of a returned operation are gone.
Locals == todo' = {} /\ cur' = NoVenue /\ idx' = 0 /\ rollback' = FALSE

\* runHttpServer: ListenAndServe returns an error (a failed bind, or a serve
\* error later on); the task goes on to send it on startChan.
HttpListenFail ==
    /\ ~panicked
    /\ httpPc = "listen"
    /\ httpPc' = "send"
    /\ UNCHANGED << envVars, cbVars, gracefulServer, httpErr, exchanges,
                    robotVars, arbVars, pc, op, result, errVenue, phase,
                    calls, afterStart, walkVars, panicked, countVars >>

\* runHttpServer: ListenAndServe returns nil after the server was closed.
HttpServeEnd ==
    /\ ~panicked
    /\ httpPc = "listen"
    /\ gracefulServer = "closed"
    /\ httpPc' = "done"
    /\ UNCHANGED << envVars, cbVars, gracefulServer, httpErr, exchanges,
                    robotVars, arbVars, pc, op, result, errVenue, phase,
                    calls, afterStart, walkVars, panicked, countVars >>

\* Initialize is called once, on a fresh orchestrator.
CallInitialize ==
    /\ ~panicked
    /\ pc = "idle"
    /\ phase = "new"
    /\ op' = "Initialize"
    /\ result' = "pending"
    /\ pc' = "ih_start"
    /\ UNCHANGED << envVars, cbVars, httpVars, exchanges, robotVars, arbVars,
                    errVenue, phase, calls, afterStart, walkVars, panicked,
                    countVars >>

\* Initialize goes on after initHttpServer returned: the error, if any, is
\* formatted and dropped, and the venue loop starts either way.
InitializeAfterHttp(err) ==
    /\ httpErr' = err
    /\ pc' = "iv_loop"
    /\ todo' = Venues

\* initHttpServer up to the select: no address, no server; otherwise the
\* handle is stored and the serve task launched.
InitHttpServer ==
    /\ ~panicked
    /\ pc = "ih_start"
    /\ IF ~addrSet
       THEN /\ InitializeAfterHttp(FALSE)
            /\ UNCHANGED << gracefulServer, httpPc >>
       ELSE /\ gracefulServer' = "open"
            /\ httpPc' = "listen"
            /\ pc' = "ih_select"
            /\ UNCHANGED << httpErr, todo >>
    /\ UNCHANGED << envVars, cbVars, exchanges, robotVars, arbVars, op,
                    result, errVenue, phase, calls, afterStart, cur, idx,
                    rollback, panicked, countVars >>

\* The select of initHttpServer receives the serve task's error.
InitHttpSelectErr ==
    /\ ~panicked
    /\ pc = "ih_select"
    /\ httpPc = "send"
    /\ httpPc' = "done"
    /\ InitializeAfterHttp(TRUE)
    /\ UNCHANGED << envVars, cbVars, gracefulServer, exchanges, robotVars,
                    arbVars, op, result, errVenue, phase, calls, afterStart,
                    cur, idx, rollback, panicked, countVars >>

\* The select of initHttpServer times out after one second.
InitHttpSelectTimeout ==
    /\ ~panicked
    /\ pc = "ih_select"
    /\ InitializeAfterHttp(FALSE)
    /\ UNCHANGED << envVars, cbVars, gracefulServer, httpPc, exchanges,
                    robotVars, arbVars, op, result, errVenue, phase, calls,
                    afterStart, cur, idx, rollback, panicked, countVars >>

\* Finalize: BlockingClose through the server handle; a nil handle is a nil
\* pointer dereference.
BlockingClose ==
    IF gracefulServer = "nil"
    THEN /\ panicked' = TRUE
         /\ UNCHANGED gracefulServer
    ELSE /\ gracefulServer' = "closed"
         /\ UNCHANGED panicked

\* One iteration of Initialize's loop over the registered constructors: a
\* venue without configuration is skipped, a constructed one is initialized
\* and recorded, a failed construction runs Finalize and returns the error.
InitializeVenue ==
    /\ ~panicked
    /\ pc = "iv_loop"
    /\ \E e \in todo :
        /\ todo' = todo \ {e}
        /\ \/ /\ e \notin configured
              /\ Succeeds
              /\ UNCHANGED << gracefulServer, exchanges, pc, result, errVenue,
                              phase, panicked >>
           \/ /\ e \in configured
              /\ Succeeds
              /\ exchanges' = exchanges \cup {e}
              /\ UNCHANGED << gracefulServer, pc, result, errVenue, phase,
                              panicked >>
           \/ /\ e \in configured
              /\ Fails
              /\ BlockingClose
              /\ IF gracefulServer = "nil"
                 THEN UNCHANGED << pc, result, errVenue, phase >>
                 ELSE /\ Return("err_venue", e)
                      /\ phase' = "dead"
              /\ UNCHANGED exchanges
    /\ UNCHANGED << cfgVars, cbVars, stopFailed, httpPc, httpErr, robotVars,
                    arbVars, op, calls, afterStart, cur, idx, rollback,
                    countVars >>

\* Initialize's loop is exhausted: return nil.
InitializeDone ==
    /\ ~panicked
    /\ pc = "iv_loop"
    /\ todo = {}
    /\ Return("nil", NoVenue)
    /\ phase' = "ready"
    /\ UNCHANGED << envVars, cbVars, httpVars, exchanges, robotVars, arbVars,
                    op, calls, afterStart, walkVars, panicked, countVars >>

\* Finalize, called on an initialized orchestrator.
Finalize ==
    /\ ~panicked
    /\ pc = "idle"
    /\ phase = "ready"
    /\ op' = "Finalize"
    /\ BlockingClose
    /\ IF gracefulServer = "nil"
       THEN /\ result' = "pending"
            /\ UNCHANGED << pc, errVenue, phase >>
       ELSE /\ Return("nil", NoVenue)
            /\ phase' = "dead"
    /\ UNCHANGED << envVars, cbVars, httpPc, httpErr, exchanges, robotVars,
                    arbVars, calls, afterStart, walkVars, countVars >>

\* ------------------------------------------------- streaming lifecycle
\* The robot creates a decision-engine instance for a pair.
EngineCreated(e, k) == [engine EXCEPT ![e][k] = @ + 1]
\* The robot destroys a pair's decision-engine instance (none: nothing to do).
EngineDestroyed(e, k) == [engine EXCEPT ![e][k] = Dec(@)]
\* The venue connector opens / closes a pair's stream.
StreamOpened(e, k) == [stream EXCEPT ![e][k] = TRUE]
StreamClosed(e, k) == [stream EXCEPT ![e][k] = FALSE]

\* The range loop over i.exchanges takes its next venue, in any order, and
\* walks its cursor from the start; a cursor that yields nothing leaves the
\* loop at the next venue.
NextVenue(first) ==
    \E e \in todo :
        /\ todo' = todo \ {e}
        /\ cur' = e
        /\ IF nctx[e] > 0
           THEN idx' = 1 /\ pc' = first
           ELSE idx' = 0 /\ UNCHANGED pc

\* A cursor walk that does not advance: the context in hand is handed out
\* again.
NextContextRepeats(first, venue) ==
    IF idx < nctx[cur]
    THEN idx' = idx /\ pc' = first
    ELSE idx' = idx /\ pc' = venue

\* A cursor walk that leaves the venue after its first context.
NextContextBreaks(first, venue) ==
    idx' = idx /\ pc' = venue

\* cursor.Next() after a context is done: the next context, or the next venue.
NextContext(first, venue) ==
    IF idx < nctx[cur]
    THEN idx' = idx + 1 /\ pc' = first
    ELSE idx' = idx /\ pc' = venue

\* A startStreaming that records the error of a failed step and goes on with
\* the next venue.
RollbackSkipsVenue(err) ==
    /\ pc' = "ss_venue"
    /\ result' = err
    /\ errVenue' = cur
    /\ UNCHANGED << todo, rollback, cur, idx >>

\* A failed step of startStreaming calls stopStreaming, which ranges over the
\* whole registry again.
Rollback(err) ==
    /\ pc' = "st_venue"
    /\ todo' = exchanges
    /\ rollback' = TRUE
    /\ result' = err
    /\ errVenue' = cur
    /\ UNCHANGED << cur, idx >>

\* Start is called.
CallStart ==
    /\ ~panicked
    /\ pc = "idle"
    /\ phase = "ready"
    /\ calls < MaxCalls
    /\ calls' = calls + 1
    /\ op' = "Start"
    /\ result' = "pending"
    /\ errVenue' = NoVenue
    /\ pc' = "ss_venue"
    /\ todo' = exchanges
    /\ nCreate' = Zero /\ nOpen' = Zero /\ nStop' = Zero /\ nDestroy' = Zero
    /\ nArbCreate' = 0 /\ nLaunch' = 0
    /\ afterStart' = (op = "Start" /\ result = "nil")
    /\ UNCHANGED << envVars, cbVars, httpVars, exchanges, robotVars, arbVars,
                    phase, cur, idx, rollback, panicked >>

\* startStreaming: the outer loop takes the next venue.
StartStreamingVenue ==
    /\ ~panicked
    /\ pc = "ss_venue"
    /\ NextVenue("ss_create")
    /\ UNCHANGED << envVars, cbVars, httpVars, exchanges, robotVars, arbVars,
                    op, result, errVenue, phase, calls, afterStart, rollback,
                    panicked, countVars >>

\* A startStreaming that logs a failed create and goes on to open the stream.
StartStreamingCreateIgnored ==
    /\ pc' = "ss_open"
    /\ UNCHANGED << walkVars, result, errVenue >>

\* startStreaming when CreateTradeAlgorithms fails: roll back, return the
\* wrapped error.
StartStreamingCreateFailed == Rollback("err_create")

\* startStreaming: CreateTradeAlgorithms for the context in hand.
StartStreamingCreate ==
    /\ ~panicked
    /\ pc = "ss_create"
    /\ nCreate' = Bump(nCreate, cur)
    /\ \/ /\ Succeeds
          /\ engine' = EngineCreated(cur, idx)
          /\ pc' = "ss_open"
          /\ UNCHANGED << walkVars, result, errVenue >>
       \/ /\ Fails
          /\ StartStreamingCreateFailed
          /\ UNCHANGED engine
    /\ UNCHANGED << cfgVars, cbVars, stopFailed, httpVars, exchanges, stream,
                    arbVars, op, phase, calls, afterStart, panicked, nOpen,
                    nStop, nDestroy, nArbCreate, nLaunch >>

\* startStreaming: StartStreaming for the context in hand.
StartStreamingOpen ==
    /\ ~panicked
    /\ pc = "ss_open"
    /\ nOpen' = Bump(nOpen, cur)
    /\ \/ /\ Succeeds
          /\ stream' = StreamOpened(cur, idx)
          /\ NextContext("ss_create", "ss_venue")
          /\ UNCHANGED << todo, cur, rollback, result, errVenue >>
       \/ /\ Fails
          /\ Rollback("err_open")
          /\ UNCHANGED stream
    /\ UNCHANGED << cfgVars, cbVars, stopFailed, httpVars, exchanges, engine,
                    arbVars, op, phase, calls, afterStart, panicked, nCreate,
                    nStop, nDestroy, nArbCreate, nLaunch >>

\* startStreaming returned nil: Start goes on to startArbitrage.
StartStreamingDone ==
    /\ ~panicked
    /\ pc = "ss_venue"
    /\ todo = {}
    /\ pc' = "sa_create"
    /\ UNCHANGED << envVars, cbVars, httpVars, exchanges, robotVars, arbVars,
                    op, result, errVenue, phase, calls, afterStart, walkVars,
                    panicked, countVars >>

\* stopStreaming: the outer loop takes the next venue.
StopStreamingVenue ==
    /\ ~panicked
    /\ pc = "st_venue"
    /\ NextVenue("st_stop")
    /\ UNCHANGED << envVars, cbVars, httpVars, exchanges, robotVars, arbVars,
                    op, result, errVenue, phase, calls, afterStart, rollback,
                    panicked, countVars >>

\* stopStreaming: StopStreaming for the context in hand; an error is logged.
StopStreamingStop ==
    /\ ~panicked
    /\ pc = "st_stop"
    /\ nStop' = Bump(nStop, cur)
    /\ \/ Succeeds /\ stream' = StreamClosed(cur, idx) /\ UNCHANGED stopFailed
       \/ Fails /\ stopFailed' = TRUE /\ UNCHANGED stream
    /\ pc' = "st_destroy"
    /\ UNCHANGED << cfgVars, cbVars, httpVars, exchanges, engine, arbVars, op,
                    result, errVenue, phase, calls, afterStart, walkVars,
                    panicked, nCreate, nOpen, nDestroy, nArbCreate, nLaunch >>

\* stopStreaming: DestroyTradeAlgorithms for the context in hand; an error is
\* logged.
StopStreamingDestroy ==
    /\ ~panicked
    /\ pc = "st_destroy"
    /\ nDestroy' = Bump(nDestroy, cur)
    /\ \/ Succeeds /\ engine' = EngineDestroyed(cur, idx)
       \/ Fails /\ UNCHANGED engine
    /\ NextContext("st_stop", "st_venue")
    /\ UNCHANGED << cfgVars, cbVars, stopFailed, httpVars, exchanges, stream,
                    arbVars, op, result, errVenue, phase, calls, afterStart,
                    todo, cur, rollback, panicked, nCreate, nOpen, nStop,
                    nArbCreate, nLaunch >>

\* A Start that drops the error of startStreaming and goes on to
\* startArbitrage.
StartOnStreamingErrorIgnored ==
    /\ pc' = "sa_create"
    /\ UNCHANGED << result, errVenue >>
    /\ Locals

\* Start after startStreaming returned an error (result holds it since the
\* failing step): wrap and return it.
StartOnStreamingError ==
    /\ Return(result, errVenue)
    /\ Locals

\* stopStreaming returned: to startStreaming (the rollback), which returns
\* its error to Start, or to Stop, which returns nil.
StopStreamingDone ==
    /\ ~panicked
    /\ pc = "st_venue"
    /\ todo = {}
    /\ IF rollback
       THEN StartOnStreamingError
       ELSE /\ Return("nil", NoVenue)
            /\ Locals
    /\ UNCHANGED << envVars, cbVars, httpVars, exchanges, robotVars, arbVars,
                    op, phase, calls, afterStart, panicked, countVars >>

\* ------------------------------------------------------- arbitrage loop
Move(from, to, late) ==
    [loops EXCEPT ![<< from, late >>] = @ - 1, ![<< to, late >>] = @ + 1]

\* go i.ArbitrageLoop(): one more loop task, at its select.
Launched == [loops EXCEPT ![<< "select", finishChan = "closed" >>] = @ + 1]

\* A startArbitrage that launches the loop task before it looks at the error.
StartArbitrageFailedLaunches ==
    /\ Return("err_arbitrage", NoVenue)
    /\ Locals
    /\ loops' = Launched
    /\ nLaunch' = nLaunch + 1
    /\ UNCHANGED << robotVars, finishChan, arbLive, arbStopped,
                    updAfterStop >>

\* startArbitrage when CreateArbitrageTradeAlgorithms fails: the wrapped
\* error is returned before the loop task is launched, and Start returns it.
StartArbitrageFailed ==
    /\ Return("err_arbitrage", NoVenue)
    /\ Locals
    /\ UNCHANGED << robotVars, arbVars, nLaunch >>

\* startArbitrage when the create succeeds: the loop task is launched, and
\* Start returns nil.
StartArbitrageOk ==
    /\ arbLive' = arbLive + 1
    /\ loops' = Launched
    /\ arbStopped' = FALSE
    /\ nLaunch' = nLaunch + 1
    /\ Return("nil", NoVenue)
    /\ Locals
    /\ UNCHANGED << robotVars, finishChan, updAfterStop >>

StartArbitrage ==
    /\ ~panicked
    /\ pc = "sa_create"
    /\ nArbCreate' = nArbCreate + 1
    /\ \/ Succeeds /\ StartArbitrageOk
       \/ Fails /\ StartArbitrageFailed
    /\ UNCHANGED << cfgVars, cbVars, stopFailed, httpVars, exchanges, op,
                    phase, calls, afterStart, panicked, nCreate, nOpen, nStop,
                    nDestroy >>

\* The select of a loop task takes the finish case: the channel is closed.
LoopExit ==
    /\ ~panicked
    /\ finishChan = "closed"
    /\ \E late \in BOOLEAN :
        /\ loops[<< "select", late >>] > 0
        /\ loops' = [loops EXCEPT ![<< "select", late >>] = @ - 1]
    /\ UNCHANGED << envVars, cbVars, httpVars, exchanges, robotVars,
                    finishChan, arbLive, arbStopped, updAfterStop, pc, op,
                    result, errVenue, phase, calls, afterStart, walkVars,
                    panicked, countVars >>

\* The select of a loop task takes the timer case: the 500 ms timer has fired
\* (when the channel is closed as well, select picks either ready case).
LoopTick ==
    /\ ~panicked
    /\ \E late \in BOOLEAN :
        /\ loops[<< "select", late >>] > 0
        /\ loops' = Move("select", "tick", late)
    /\ UNCHANGED << envVars, cbVars, httpVars, exchanges, robotVars,
                    finishChan, arbLive, arbStopped, updAfterStop, pc, op,
                    result, errVenue, phase, calls, afterStart, walkVars,
                    panicked, countVars >>

\* The timer case calls UpdateArbitrageTradeAlgorithms (an error is logged)
\* and the task loops back to its select.
LoopUpdate ==
    /\ ~panicked
    /\ \E late \in BOOLEAN :
        /\ loops[<< "tick", late >>] > 0
        /\ loops' = Move("tick", "select", late)
    /\ updAfterStop' = (updAfterStop \/ arbStopped)
    /\ UNCHANGED << envVars, cbVars, httpVars, exchanges, robotVars,
                    finishChan, arbLive, arbStopped, pc, op, result, errVenue,
                    phase, calls, afterStart, walkVars, panicked, countVars >>

\* Stop is called.
CallStop ==
    /\ ~panicked
    /\ pc = "idle"
    /\ phase = "ready"
    /\ calls < MaxCalls
    /\ calls' = calls + 1
    /\ op' = "Stop"
    /\ result' = "pending"
    /\ errVenue' = NoVenue
    /\ pc' = "sat_close"
    /\ nCreate' = Zero /\ nOpen' = Zero /\ nStop' = Zero /\ nDestroy' = Zero
    /\ nArbCreate' = 0 /\ nLaunch' = 0
    /\ afterStart' = (op = "Start" /\ result = "nil")
    /\ UNCHANGED << envVars, cbVars, httpVars, exchanges, robotVars, arbVars,
                    phase, walkVars, panicked >>

\* stopArbitrageTrade: close(i.arbitrageLoopFinishChan); closing a closed
\* channel is a run-time panic.
StopArbitrageClose ==
    /\ ~panicked
    /\ pc = "sat_close"
    /\ IF finishChan = "closed"
       THEN /\ panicked' = TRUE
            /\ UNCHANGED << finishChan, pc >>
       ELSE /\ finishChan' = "closed"
            /\ pc' = "sat_destroy"
            /\ UNCHANGED panicked
    /\ UNCHANGED << envVars, cbVars, httpVars, exchanges, robotVars, arbLive,
                    loops, arbStopped, updAfterStop, op, result, errVenue,
                    phase, calls, afterStart, walkVars, countVars >>

\* stopArbitrageTrade: DestroyArbitrageTradeAlgorithms (an error is logged),
\* return nil; Stop goes on to stopStreaming.
StopArbitrageDestroy ==
    /\ ~panicked
    /\ pc = "sat_destroy"
    /\ \/ Succeeds /\ arbLive' = Dec(arbLive)
       \/ Fails /\ UNCHANGED arbLive
    /\ arbStopped' = TRUE
    /\ pc' = "st_venue"
    /\ todo' = exchanges
    /\ rollback' = FALSE
    /\ UNCHANGED << cfgVars, cbVars, stopFailed, httpVars, exchanges,
                    robotVars, finishChan, loops, updAfterStop, op, result,
                    errVenue, phase, calls, afterStart, cur, idx, panicked,
                    countVars >>

\* -------------------------------------------- streaming-update callback
\* tradeContext.GetID(): the identifier the robot keys a context's engine
\* by, at create, update and destroy alike; a pair is named by it.
GetID(p) == p

\* A streamingCallback that hands the error of the update to the connector.
StreamingCallbackResultPropagates(err) == IF err THEN "err" ELSE "nil"

\* What streamingCallback returns after an update that returned an error
\* (err) or nil: the error is logged, nil is returned.
StreamingCallbackResult(err) == "nil"

\* A venue connector delivers an event of a pair whose stream is open: its
\* delivery task enters streamingCallback with the pair's context.
CallbackInvoke ==
    /\ ~panicked
    /\ cbPc = "idle"
    /\ \E p \in Pairs :
        /\ p[1] \in exchanges
        /\ stream[p[1]][p[2]]
        /\ cbEvent' = p
    /\ cbPc' = "update"
    /\ cbKey' = NoPair
    /\ cbUpdErr' = FALSE
    /\ cbRet' = "pending"
    /\ UNCHANGED << envVars, httpVars, exchanges, robotVars, arbVars, pc, op,
                    result, errVenue, phase, calls, afterStart, walkVars,
                    panicked, countVars >>

\* streamingCallback: UpdateTradeAlgorithms keyed by the context's
\* identifier; the call returns an error or nil, and the callback returns.
CallbackUpdate ==
    /\ ~panicked
    /\ cbPc = "update"
    /\ cbKey' = GetID(cbEvent)
    /\ \E err \in BOOLEAN :
        /\ cbUpdErr' = err
        /\ cbRet' = StreamingCallbackResult(err)
    /\ cbPc' = "idle"
    /\ UNCHANGED << envVars, httpVars, exchanges, robotVars, arbVars, pc, op,
                    result, errVenue, phase, calls, afterStart, walkVars,
                    panicked, countVars, cbEvent >>

\* --------------------------------------------------------- specification
\* The steps of Initialize and Finalize on the caller task.
NextInitialize ==
    \/ CallInitialize
    \/ InitHttpServer
    \/ InitializeVenue
    \/ InitializeDone
    \/ Finalize

\* The bind-check window of initHttpServer and the serve task.
NextHttp ==
    \/ InitHttpSelectErr
    \/ InitHttpSelectTimeout
    \/ HttpListenFail
    \/ HttpServeEnd

\* The steps of Start and Stop on the caller task.
NextStartStop ==
    \/ CallStart
    \/ StartStreamingVenue
    \/ StartStreamingCreate
    \/ StartStreamingOpen
    \/ StartStreamingDone
    \/ StopStreamingVenue
    \/ StopStreamingStop
    \/ StopStreamingDestroy
    \/ StopStreamingDone
    \/ StartArbitrage
    \/ CallStop
    \/ StopArbitrageClose
    \/ StopArbitrageDestroy

\* The steps of the arbitrage loop tasks.
NextLoop ==
    \/ LoopExit
    \/ LoopTick
    \/ LoopUpdate

Next == NextInitialize \/ NextHttp \/ NextStartStop \/ NextLoop

\* The orchestrator's own tasks: the caller task, the serve task and the
\* loop tasks.
Spec == Init /\ [][Next]_vars

\* The caller task alone, on an orchestrator configured without a server
\* address: no serve task exists, and the loop tasks, which touch neither the
\* registry nor the streaming state nor the caller's position, are left out.
InitCaller == Init /\ ~addrSet
NextCaller == NextInitialize \/ NextStartStop
SpecCaller == InitCaller /\ [][NextCaller]_vars

\* The caller task alone, as above, in the runs in which every collaborator
\* call returns nil.
InitNoFault == NewIntegrator(MaxCursor) /\ ~addrSet /\ faults = MaxFaults
SpecNoFault == InitNoFault /\ [][NextCaller]_vars

\* The steps of a venue connector's delivery task.
NextCallback ==
    \/ CallbackInvoke
    \/ CallbackUpdate

\* The caller task and a delivery task, in the runs in which every call of
\* the caller task returns nil.
NextDelivery == NextCaller \/ NextCallback
SpecCallback == InitNoFault /\ [][NextDelivery]_vars

\* The caller task and the loop tasks, in the runs in which every call of
\* the caller task returns nil.  A loop task whose update call is pending
\* gets to make it and return from it; a select that finds the finish case
\* ready again and again takes it in the end, since it chooses among its
\* ready cases at random.
NextArbitrage == NextCaller \/ NextLoop
FairLoop == SF_vars(LoopExit) /\ WF_vars(LoopUpdate)
SpecLoopFair == InitNoFault /\ [][NextArbitrage]_vars /\ FairLoop

\* The caller task and a delivery task.
SpecDelivery == InitCaller /\ [][NextDelivery]_vars

\* ------------------------------------------------------------- properties
Active(p) == engine[p[1]][p[2]] > 0
Open(p) == stream[p[1]][p[2]]
StreamingErrors == {"err_create", "err_open"}
Returned(o) == op = o /\ pc = "idle" /\ ~panicked

\* C1: when initHttpServer returned an error, Initialize does not return nil
\* and no venue connector is recorded in the registry.
C1_BindFailureAborts ==
    httpErr => (exchanges = {} /\ phase # "ready")

\* C2: when Start returns because a StartStreaming call failed, the rollback
\* has made, for each venue, as many DestroyTradeAlgorithms calls as
\* startStreaming made CreateTradeAlgorithms calls.
C2_RollbackBalanced ==
    (Returned("Start") /\ result = "err_open") =>
        \A e \in Venues : nDestroy[e] = nCreate[e]

\* C3: stopArbitrageTrade never panics, also when the finish channel was
\* closed by an earlier call.
C3_SecondStopSafe ==
    ~(panicked /\ pc = "sat_close")

\* C4: UpdateArbitrageTradeAlgorithms is never invoked after
\* stopArbitrageTrade has returned.
C4_NoUpdateAfterStop ==
    ~updAfterStop

C6_VenueFailureCleansUp ==
    (Returned("Initialize") /\ result = "err_venue") =>
        (exchanges = {} /\ gracefulServer # "open")

\* C7: Finalize right after Initialize completes normally, with no
\* decision-engine instance created and the server not running, whether the
\* address is set or not.
C7_InitializeThenFinalize ==
    (op = "Finalize" /\ calls = 0) =>
        /\ ~panicked
        /\ result = "nil"
        /\ gracefulServer # "open"
        /\ \A p \in Pairs : ~Active(p)

\* C8: once a step of startStreaming has failed inside Start, that Start
\* makes no CreateArbitrageTradeAlgorithms call, launches no loop task,
\* never reaches startArbitrage, and returns the streaming error.
C8_NoArbitrageAfterStreamingError ==
    (op = "Start" /\ errVenue # NoVenue) =>
        /\ nArbCreate = 0
        /\ nLaunch = 0
        /\ pc \in {"st_venue", "st_stop", "st_destroy", "idle"}
        /\ pc = "idle" => result \in StreamingErrors

\* C8's case: Start has returned after a StartStreaming call failed.
C8_Witness ==
    Returned("Start") /\ result = "err_open" /\ errVenue # NoVenue

\* C9: when Start returns because CreateArbitrageTradeAlgorithms failed, no
\* loop task was launched, no StopStreaming or DestroyTradeAlgorithms call
\* was made, and every pair of the registry is open and active.
C9_ArbitrageErrorLeavesStreaming ==
    (Returned("Start") /\ result = "err_arbitrage") =>
        /\ nLaunch = 0
        /\ \A e \in Venues : nStop[e] = 0 /\ nDestroy[e] = 0
        /\ \A e \in exchanges : nCreate[e] = nctx[e] /\ nOpen[e] = nctx[e]
        /\ \A p \in Pairs : p[1] \in exchanges => Open(p) /\ Active(p)

\* C9's case: Start has returned the arbitrage error with a stream opened.
C9_Witness ==
    /\ Returned("Start")
    /\ result = "err_arbitrage"
    /\ \E e \in exchanges : nOpen[e] > 0

\* C10: a Stop called after a Start that returned nil does not panic, runs
\* stopArbitrageTrade before any StopStreaming or DestroyTradeAlgorithms
\* call, returns nil, and makes one StopStreaming and one
\* DestroyTradeAlgorithms call per context of every venue of the registry.
C10_StopBestEffort ==
    (op = "Stop" /\ afterStart) =>
        /\ ~panicked
        /\ (\E e \in Venues : nStop[e] + nDestroy[e] > 0) => arbStopped
        /\ pc = "idle" =>
            /\ result = "nil"
            /\ \A e \in exchanges :
                nStop[e] = nctx[e] /\ nDestroy[e] = nctx[e]

\* C11: the step of startStreaming at which a CreateTradeAlgorithms or
\* StartStreaming call fails enters the rollback with the error naming the
\* venue in hand; from then on until Start returns, no CreateTradeAlgorithms
\* and no StartStreaming call is made, only the rollback's steps are taken,
\* and the error and the venue it names stay as they are.
C11_NoCallAfterFirstFailure ==
    [][/\ (pc \in {"ss_create", "ss_open"} /\ faults' > faults) =>
            /\ pc' = "st_venue"
            /\ result' \in StreamingErrors
            /\ errVenue' = cur
       /\ (op = "Start" /\ errVenue # NoVenue /\ pc # "idle") =>
            /\ nCreate' = nCreate
            /\ nOpen' = nOpen
            /\ pc' \in {"st_venue", "st_stop", "st_destroy", "idle"}
            /\ result' = result
            /\ errVenue' = errVenue]_vars

\* C11's case: Start has returned a streaming error with a context of the
\* failing venue and a whole other venue never attempted, both walked by the
\* rollback.
C11_Witness ==
    /\ Returned("Start")
    /\ result \in StreamingErrors
    /\ nCreate[errVenue] < nctx[errVenue]
    /\ \E e \in exchanges \ {errVenue} :
        nctx[e] > 0 /\ nCreate[e] = 0 /\ nStop[e] = nctx[e]

\* C12: in every state the number of live cross-venue engine instances is 0
\* or 1, and stopArbitrageTrade is never about to call
\* DestroyArbitrageTradeAlgorithms with no instance live.
C12_ArbitrageEngineZeroOrOne ==
    /\ arbLive <= 1
    /\ pc = "sat_destroy" => arbLive > 0

\* C13: in every state each pair has at most one live decision-engine
\* instance, CreateTradeAlgorithms is never about to be called for a pair
\* that has one, and DestroyTradeAlgorithms is never about to be called for
\* a pair that has none.
C13_EngineZeroOrOnePerPair ==
    /\ \A p \in Pairs : engine[p[1]][p[2]] <= 1
    /\ pc = "ss_create" => ~Active(<< cur, idx >>)
    /\ pc = "st_destroy" => Active(<< cur, idx >>)

\* C14: when no call fails, startStreaming has made, when it returns, one
\* CreateTradeAlgorithms and one StartStreaming call per context of each
\* venue of the registry and no stop or destroy call, and a Stop has made,
\* when it returns, one StopStreaming and one DestroyTradeAlgorithms call per
\* context of each venue and no create or open call, in whatever order the
\* venues were taken.
C14_OneCallPerContext ==
    /\ (op = "Start" /\ pc \in {"sa_create", "idle"}) =>
        \A e \in Venues :
            /\ nCreate[e] = (IF e \in exchanges THEN nctx[e] ELSE 0)
            /\ nOpen[e] = nCreate[e]
            /\ nStop[e] = 0 /\ nDestroy[e] = 0
    /\ Returned("Stop") =>
        \A e \in Venues :
            /\ nStop[e] = (IF e \in exchanges THEN nctx[e] ELSE 0)
            /\ nDestroy[e] = nStop[e]
            /\ nCreate[e] = 0 /\ nOpen[e] = 0

\* C14's case: with one venue yielding 3 contexts and one yielding none, a
\* Stop following a Start that returned nil has returned after 3 stop and 3
\* destroy calls.
C14_Witness ==
    /\ Returned("Stop")
    /\ afterStart
    /\ \E e \in exchanges, f \in exchanges :
        /\ nctx[e] = 3 /\ nctx[f] = 0
        /\ nStop[e] = 3 /\ nDestroy[e] = 3

\* C15: whenever streamingCallback has returned, it has called
\* UpdateTradeAlgorithms keyed by the identifier of the event's context and
\* has returned nil, also when the update returned an error.
C15_CallbackAlwaysNil ==
    /\ cbRet # "err"
    /\ (cbPc = "idle" /\ cbEvent # NoPair) =>
        /\ cbKey = GetID(cbEvent)
        /\ cbRet = "nil"

\* C15's case: the callback has returned after an update that returned an
\* error.
C15_Witness ==
    cbPc = "idle" /\ cbEvent # NoPair /\ cbUpdErr

\* C20: a delivery task inside streamingCallback, about to call
\* UpdateTradeAlgorithms, holds the context of a pair whose decision-engine
\* instance is active.
C20_UpdateTargetsActiveEngine ==
    cbPc = "update" => Active(GetID(cbEvent))

\* Loop tasks that have taken the timer case and not yet returned from the
\* update.
Ticking == loops[<< "tick", FALSE >>] + loops[<< "tick", TRUE >>]

\* C16: once the finish channel is closed, no loop task takes the timer case
\* and none invokes UpdateArbitrageTradeAlgorithms: a select with both cases
\* ready takes the finish case.
C16_CancellationBeforeTick ==
    [][finishChan = "closed" => Ticking' = Ticking]_vars

\* No loop task is live.
NoLoops == \A s \in LoopStates : loops[s] = 0

\* C18: once the finish channel is closed, every loop task eventually
\* terminates (or the process has died), and a loop task launched after the
\* channel was closed never takes the timer case, so it never invokes
\* UpdateArbitrageTradeAlgorithms.
C18_LoopStopsForGood ==
    /\ (finishChan = "closed") ~> (panicked \/ NoLoops)
    /\ [](loops[<< "tick", TRUE >>] = 0)

\* C19: whenever the serve task is at its send on startChan, initHttpServer
\* is at its select, the only receive from that channel there is, so the
\* send is received and the task terminates.  (Initialize runs once: a send
\* that finds the select gone is never received.)
C19_ServeTaskSendReceived ==
    (httpPc = "send" /\ ~panicked) => pc = "ih_select"

\* C17: inside a cursor walk the calls follow the cursor one context at a
\* time: startStreaming is at the create call of its k-th context after k-1
\* create and k-1 open calls for the venue, and at the open call after k
\* create and k-1 open calls; stopStreaming is at the stop call of its k-th
\* context after k-1 stop and k-1 destroy calls, and at the destroy call
\* after k stop and k-1 destroy calls.
C17_OneContextAtATime ==
    /\ pc = "ss_create" => (nCreate[cur] = idx - 1 /\ nOpen[cur] = idx - 1)
    /\ pc = "ss_open" => (nCreate[cur] = idx /\ nOpen[cur] = idx - 1)
    /\ pc = "st_stop" => (nStop[cur] = idx - 1 /\ nDestroy[cur] = idx - 1)
    /\ pc = "st_destroy" => (nStop[cur] = idx /\ nDestroy[cur] = idx - 1)
    /\ pc \in {"ss_create", "ss_open", "st_stop", "st_destroy"} =>
        (idx >= 1 /\ idx <= nctx[cur])

\* C17's case: a Stop after a Start that returned nil is at the destroy call
\* of a venue's second context, both contexts created and opened by the
\* Start one after the other.
C17_Witness ==
    /\ op = "Stop"
    /\ afterStart
    /\ pc = "st_destroy"
    /\ idx = 2
    /\ Active(<< cur, 1 >>) /\ Active(<< cur, 2 >>)

====
